---- MODULE Spec2Model ----
(***************************************************************************)
(* The "exact" EVM facilitator of x402: verify (src/unnamed/part_000       *)
(* lines 35-196) and settle (lines 209-269), together with the external    *)
(* state they read and write: the clock, the payer's token balance and     *)
(* the token contract's used authorization nonces.                         *)
(*                                                                         *)
(* verify and settle are async functions.  Each action below is one run    *)
(* of synchronous code between two suspension points (await): the          *)
(* external state may change between two actions of one invocation, never  *)
(* inside one.                                                             *)
(***************************************************************************)
EXTENDS Integers, Sequences, FiniteSets, TLC

\* ------------------------------------------------------------------ bounds
\* The clock runs over the seconds 0..MaxNow.
MaxNow == 2
\* Requests differ from the reference request in at most MaxDiff fields.
MaxDiff == 2

\* ------------------------------------------------------- program constants
\* import { SCHEME } from "../../exact"
SCHEME == "exact"
\* "Pad 3 block to account for round tripping": the + 6 of line 142.
Margin == 6

\* Invocations that can be in flight.
Procs == {1, 2}

\* --------------------------------------------------------- decimal strings
\* value, validAfter, validBefore and maxAmountRequired travel as decimal
\* strings; a string is modelled as the sequence of its digits.
RECURSIVE BigInt(_)
BigInt(s) == IF s = <<>> THEN 0 ELSE 10 * BigInt(SubSeq(s, 1, Len(s) - 1)) + s[Len(s)]

\* ---------------------------------------------------------------- addresses
\* viem's isAddress(a, {strict: false}): 0x followed by hex digits, any case.
\* "0xZZ" stands for a string that is no address.
Checksummed == {"0xAa", "0xBb", "0xCc", "0xDd", "0xT0"}
LowerCased == {"0xaa", "0xbb", "0xcc", "0xdd", "0xt0"}
isAddress(a) == a \in Checksummed \cup LowerCased

\* viem's getAddress: the EIP-55 checksummed form of an address; it throws
\* InvalidAddressError on anything else (callers test isAddress first).
getAddress(a) ==
    CASE a \in {"0xaa", "0xAa"} -> "0xAa"
      [] a \in {"0xbb", "0xBb"} -> "0xBb"
      [] a \in {"0xcc", "0xCc"} -> "0xCc"
      [] a \in {"0xdd", "0xDd"} -> "0xDd"
      [] a \in {"0xt0", "0xT0"} -> "0xT0"

\* ------------------------------------------------------------------ inputs
\* The reference request: the end-to-end scenario of the facilitator, the
\* payer 0xAa paying 10 units of the token 0xT0 to 0xBb, signed by 0xAa.
Signer == "0xAa"
NoExtra == [name |-> "undefined", version |-> "undefined"]

\* The request as one flat record of the fields verify and settle read.
BaseFields ==
    [payloadScheme |-> "exact", network |-> "base-sepolia", signature |-> "0xsig",
     from |-> "0xAa", to |-> "0xBb", value |-> <<1, 0>>, validAfter |-> <<0>>,
     validBefore |-> <<1, 2>>, nonce |-> "0xn1",
     scheme |-> "exact", asset |-> "0xT0", payTo |-> "0xBb",
     maxAmountRequired |-> <<1, 0>>, extra |-> [name |-> "USDC", version |-> "2"]]

\* The other values each field takes.  Signatures: "0xsig" is the signature
\* of Signer over the authorization of the payload it travels in, under the
\* token's true EIP-712 domain; "0xsjg" is that signature with one byte
\* flipped; "sig" is no hex string.
Alternatives ==
    {<<"payloadScheme", "other">>, <<"scheme", "other">>,
     <<"network", "unlisted">>, <<"network", "unknown">>,
     <<"signature", "0xsjg">>, <<"signature", "sig">>,
     <<"from", "0xaa">>, <<"from", "0xDd">>, <<"from", "0xZZ">>,
     <<"to", "0xbb">>, <<"to", "0xCc">>, <<"to", "0xZZ">>,
     <<"value", <<9>> >>, <<"value", <<1, 1>> >>,
     <<"validAfter", <<1>> >>, <<"validAfter", <<2>> >>,
     <<"validBefore", <<0>> >>, <<"validBefore", <<6>> >>, <<"validBefore", <<7>> >>,
     <<"nonce", "0xn2">>,
     <<"asset", "0xZZ">>,
     <<"payTo", "0xbb">>, <<"payTo", "0xZZ">>,
     <<"maxAmountRequired", <<1, 1>> >>,
     <<"extra", [name |-> "Fake", version |-> "2"]>>, <<"extra", NoExtra>>}

RECURSIVE Within(_)
Within(n) ==
    IF n = 0 THEN {BaseFields}
    ELSE Within(n - 1)
         \cup {[f EXCEPT ![kv[1]] = kv[2]] : f \in Within(n - 1), kv \in Alternatives}

MakePayload(f) ==
    [scheme |-> f.payloadScheme, network |-> f.network,
     payload |-> [authorization |->
                    [from |-> f.from, to |-> f.to, value |-> f.value,
                     validAfter |-> f.validAfter, validBefore |-> f.validBefore,
                     nonce |-> f.nonce],
                  signature |-> f.signature]]
MakeRequirements(f) ==
    [scheme |-> f.scheme, network |-> "base-sepolia", asset |-> f.asset,
     payTo |-> f.payTo, maxAmountRequired |-> f.maxAmountRequired, extra |-> f.extra]

BasePayload == MakePayload(BaseFields)
BaseRequirements == MakeRequirements(BaseFields)

\* The requests of the model: <<payload, paymentRequirements>> pairs.
Requests == {<<MakePayload(f), MakeRequirements(f)>> : f \in Within(MaxDiff)}

\* The balances the payer's other transfers leave it with.
Balances == {9, 10, 11}

\* ------------------------------------------------------------------- state
VARIABLES
    pc,                  \* per invocation: the await it is suspended at
    op,                  \* per invocation: "verify" or "settle"
    payload,             \* per invocation: the PaymentPayload argument
    paymentRequirements, \* per invocation: the PaymentRequirements argument
    domain,              \* per invocation: name, version, chainId, erc20Address
    valid,               \* per invocation: the VerifyResponse verify produced
    settled,             \* per invocation: the SettleResponse settle returned
    outcome,             \* per invocation: "pending", "returned" or "threw"
    tx,                  \* per invocation: the hash writeContract returned
    calls,               \* per invocation: the external calls made so far
    accepted,            \* per invocation: an earlier verify accepted these inputs
    now,                 \* Math.floor(Date.now() / 1000)
    balance,             \* the token balance of Signer
    usedNonces,          \* authorization nonces the token contract has consumed
    receipts,            \* per invocation: the state of its transaction on chain
    seen                 \* per invocation: what its external reads answered

vars == <<pc, op, payload, paymentRequirements, domain, valid, settled, outcome,
          tx, calls, accepted, now, balance, usedNonces, receipts, seen>>

Pending == [isValid |-> FALSE, invalidReason |-> "pending", payer |-> "pending"]
Unsettled ==
    [success |-> FALSE, network |-> "pending", transaction |-> "pending",
     errorReason |-> "pending", payer |-> "pending"]
NoDomain ==
    [name |-> "undefined", version |-> "undefined", chainId |-> 0,
     verifyingContract |-> "undefined"]
NoCalls ==
    [getVersion |-> 0, verifyTypedData |-> 0, getERC20Balance |-> 0,
     writeContract |-> 0, waitForTransactionReceipt |-> 0]
\* Nothing read yet: Date.now() (lines 142, 155), the balance (line 167), the
\* version getVersion answered (line 74; "error" when it threw).
NoReads == [clock |-> -1, balance |-> -1, version |-> "unread"]

\* ------------------------------------------------- external collaborators
\* getNetworkId (shared): the chain id of a known network; throws otherwise.
NetworkIds == [n \in {"base-sepolia", "unlisted"} |-> IF n = "base-sepolia" THEN 84532 ELSE 999]
\* config (types/shared/evm): per-chain token metadata, keyed by chain id.
config == [c \in {84532} |-> [usdcName |-> "USDC"]]
\* getVersion (shared/evm): reads the token's EIP-712 version over RPC.
getVersion == "2"
\* The EIP-712 domain the token contract 0xT0 verifies signatures under.
TokenDomain ==
    [name |-> "USDC", version |-> "2", chainId |-> 84532, verifyingContract |-> "0xT0"]
isHex(s) == s \in {"0xsig", "0xsjg"}

\* viem's verifyTypedData throws on a malformed address in the typed data or a
\* signature that is no hex string.
verifyTypedDataThrows(address, dom, message, signature) ==
    \/ ~isAddress(address)
    \/ ~isAddress(dom.verifyingContract)
    \/ ~isAddress(message.from)
    \/ ~isAddress(message.to)
    \/ ~isHex(signature)
\* A signature check that accepts whatever it is given.
verifyTypedDataSkipped(address, dom, message, signature) == TRUE
\* Otherwise it tells whether the signature is address's over the typed data.
verifyTypedData(address, dom, message, signature) ==
    /\ signature = "0xsig"
    /\ dom = TokenDomain
    /\ getAddress(address) = Signer

\* getERC20Balance (shared/evm): the owner's balance of the token.
getERC20Balance(erc20Address, owner) ==
    IF erc20Address = "0xT0" /\ isAddress(owner) /\ getAddress(owner) = Signer
    THEN balance ELSE 0

\* The token contract's transferWithAuthorization: what makes it succeed.
ContractAccepts(pl) ==
    LET a == pl.payload.authorization
    IN  /\ isAddress(a.from) /\ getAddress(a.from) = Signer
        /\ pl.payload.signature = "0xsig"
        /\ now > BigInt(a.validAfter)
        /\ now < BigInt(a.validBefore)
        /\ a.nonce \notin usedNonces
        /\ balance >= BigInt(a.value)

TxHash(p) == IF p = 1 THEN "0xh1" ELSE "0xh2"

\* ------------------------------------------------------------------ verify
\* The payer normalised to its checksummed form, as a recovered address is.
PayerNormalized(pl) ==
    IF isAddress(pl.payload.authorization.from)
    THEN getAddress(pl.payload.authorization.from)
    ELSE pl.payload.authorization.from
\* Lines 62, 83, 122, ...: the payer of every response.
Payer(pl) == pl.payload.authorization.from

\* Line 61: the template literal, for the schemes of the model.
IncompatibleScheme(ps, rs) ==
    CASE ps = "other" /\ rs = "other" ->
           "Incompatible payload scheme. payload: other, paymentRequirements: other, supported: exact"
      [] ps = "other" /\ rs = "exact" ->
           "Incompatible payload scheme. payload: other, paymentRequirements: exact, supported: exact"
      [] ps = "exact" /\ rs = "other" ->
           "Incompatible payload scheme. payload: exact, paymentRequirements: other, supported: exact"

Reject(pl, reason) == [isValid |-> FALSE, invalidReason |-> reason, payer |-> Payer(pl)]
Accept(pl) == [isValid |-> TRUE, invalidReason |-> "undefined", payer |-> Payer(pl)]

\* Line 58.
SchemeMismatch(pl, rq) == pl.scheme # SCHEME \/ rq.scheme # SCHEME

\* Lines 70-75: what the try block needs to run through.
HasName(rq) == rq.extra.name # "undefined"
HasVersion(rq) == rq.extra.version # "undefined"
CallsGetVersion(pl, rq) ==
    /\ pl.network \in DOMAIN NetworkIds
    /\ HasName(rq) \/ NetworkIds[pl.network] \in DOMAIN config
    /\ ~HasVersion(rq)
ResolutionFails(pl, rq, rpcOk) ==
    \/ pl.network \notin DOMAIN NetworkIds
    \/ ~HasName(rq) /\ NetworkIds[pl.network] \notin DOMAIN config
    \/ ~HasVersion(rq) /\ ~rpcOk
\* Lines 90-95: the domain of the typed data.
PermitDomain(pl, rq) ==
    [name |-> IF HasName(rq) THEN rq.extra.name ELSE config[NetworkIds[pl.network]].usdcName,
     version |-> IF HasVersion(rq) THEN rq.extra.version ELSE getVersion,
     chainId |-> NetworkIds[pl.network],
     verifyingContract |-> rq.asset]

\* Line 127.
RecipientMismatch(pl, rq) ==
    getAddress(pl.payload.authorization.to) # getAddress(rq.payTo)
\* Line 142.
Expired(pl, t) == BigInt(pl.payload.authorization.validBefore) < t + Margin
\* Line 155.
NotYetValid(pl, t) == BigInt(pl.payload.authorization.validAfter) > t
\* The solvency check with <= for <.
InsufficientFundsInclusive(bal, rq) == bal <= BigInt(rq.maxAmountRequired)
\* Line 172.
InsufficientFunds(bal, rq) == bal < BigInt(rq.maxAmountRequired)
\* The amount check rejecting also an authorization whose nonce is consumed.
AmountTooLowOrReplayed(pl, rq) ==
    \/ BigInt(pl.payload.authorization.value) < BigInt(rq.maxAmountRequired)
    \/ pl.payload.authorization.nonce \in usedNonces
\* Line 180.
AmountTooLow(pl, rq) ==
    BigInt(pl.payload.authorization.value) < BigInt(rq.maxAmountRequired)

\* ------------------------------------------------------------------ settle
\* settle without its check of the re-verification.
PreSettleIgnored(v) == FALSE
\* Line 217.
PreSettleFailed(v) == ~v.isValid
\* Lines 222-228.
SettleInvalid(pl) ==
    [success |-> FALSE, network |-> pl.network, transaction |-> "",
     errorReason |-> "invalid_scheme", payer |-> Payer(pl)]
\* settle taking every receipt for a success.
ReceiptUnchecked(status) == FALSE
\* Line 249.
ReceiptNotSuccess(status) == status # "success"
\* settle submitting again when the receipt is not a success.
RetryAfterReceipt(status) == IF status # "success" THEN "writeContract" ELSE "done"
\* Lines 249-268: both branches return; settle is over whatever the receipt.
AfterReceipt(status) == "done"
\* Lines 254-260.
SettleFailed(pl, hash) ==
    [success |-> FALSE, network |-> pl.network, transaction |-> hash,
     errorReason |-> "invalid_scheme", payer |-> Payer(pl)]
\* Lines 263-268.
SettleSucceeded(pl, hash) ==
    [success |-> TRUE, network |-> pl.network, transaction |-> hash,
     errorReason |-> "undefined", payer |-> Payer(pl)]

\* ----------------------------------------------------------------- actions
Called(p, name) == calls' = [calls EXCEPT ![p][name] = @ + 1]

\* An exception leaves verify or settle: nothing is returned.
Throws(p) ==
    /\ pc' = [pc EXCEPT ![p] = "done"]
    /\ outcome' = [outcome EXCEPT ![p] = "threw"]
    /\ UNCHANGED <<valid, settled>>

\* verify returns r: to its caller (lines 60, 191), or to settle, which goes on
\* from line 217 up to the await of writeContract.
VerifyReturns(p, r) ==
    /\ valid' = [valid EXCEPT ![p] = r]
    /\ IF op[p] = "verify"
       THEN /\ pc' = [pc EXCEPT ![p] = "done"]
            /\ outcome' = [outcome EXCEPT ![p] = "returned"]
            /\ UNCHANGED settled
       ELSE IF PreSettleFailed(r)
       THEN /\ pc' = [pc EXCEPT ![p] = "done"]
            /\ outcome' = [outcome EXCEPT ![p] = "returned"]
            /\ settled' = [settled EXCEPT ![p] = SettleInvalid(payload[p])]
       ELSE /\ pc' = [pc EXCEPT ![p] = "writeContract"]
            /\ UNCHANGED <<outcome, settled>>

Start(p, o, pl, rq, acc) ==
    /\ op' = [op EXCEPT ![p] = o]
    /\ payload' = [payload EXCEPT ![p] = pl]
    /\ paymentRequirements' = [paymentRequirements EXCEPT ![p] = rq]
    /\ domain' = [domain EXCEPT ![p] = NoDomain]
    /\ valid' = [valid EXCEPT ![p] = Pending]
    /\ settled' = [settled EXCEPT ![p] = Unsettled]
    /\ outcome' = [outcome EXCEPT ![p] = "pending"]
    /\ tx' = [tx EXCEPT ![p] = "none"]
    /\ calls' = [calls EXCEPT ![p] = NoCalls]
    /\ receipts' = [receipts EXCEPT ![p] = "none"]
    /\ accepted' = [accepted EXCEPT ![p] = acc]
    /\ seen' = [seen EXCEPT ![p] = NoReads]
    /\ UNCHANGED <<now, balance, usedNonces>>

\* A caller invokes verify or settle (index.ts lines 60 and 99).
Call(p) ==
    /\ pc[p] = "idle"
    /\ \E r \in Requests, o \in {"verify", "settle"} : Start(p, o, r[1], r[2], FALSE)
    /\ pc' = [pc EXCEPT ![p] = "verify"]

\* The caller has its answer (index.ts lines 62, 101 and the catch blocks);
\* nothing of the invocation is kept.
Return(p) ==
    /\ pc[p] = "done"
    /\ receipts[p] # "pending"
    /\ Start(p, "verify", BasePayload, BaseRequirements, FALSE)
    /\ pc' = [pc EXCEPT ![p] = "idle"]

\* The resource server settles the request it has just had verified.
SettleAfterVerify(p) ==
    /\ pc[p] = "done"
    /\ op[p] = "verify"
    /\ outcome[p] = "returned"
    /\ Start(p, "settle", payload[p], paymentRequirements[p], valid[p].isValid)
    /\ pc' = [pc EXCEPT ![p] = "verify"]

\* Lines 57-85, up to the await of verifyTypedData.
Resolve(p) ==
    LET pl == payload[p]
        rq == paymentRequirements[p]
    IN  /\ pc[p] = "verify"
        /\ IF SchemeMismatch(pl, rq)
           THEN /\ VerifyReturns(p, Reject(pl, IncompatibleScheme(pl.scheme, rq.scheme)))
                /\ UNCHANGED <<domain, calls, seen>>
           ELSE \E rpcOk \in BOOLEAN :
                /\ IF CallsGetVersion(pl, rq)
                   THEN /\ Called(p, "getVersion")
                        /\ seen' = [seen EXCEPT ![p].version =
                                      IF rpcOk THEN getVersion ELSE "error"]
                   ELSE UNCHANGED <<calls, seen>>
                /\ IF ResolutionFails(pl, rq, rpcOk)
                   THEN /\ VerifyReturns(p, Reject(pl, "invalid_network"))
                        /\ UNCHANGED domain
                   ELSE /\ domain' = [domain EXCEPT ![p] = PermitDomain(pl, rq)]
                        /\ pc' = [pc EXCEPT ![p] = "verifyTypedData"]
                        /\ UNCHANGED <<valid, settled, outcome>>
        /\ UNCHANGED <<op, payload, paymentRequirements, tx, accepted, now, balance,
                       usedNonces, receipts>>

\* Lines 109-137 pass: the code goes on to read Date.now() on line 142.
ReachesDeadlines(pl, rq, dom) ==
    LET a == pl.payload.authorization
    IN  /\ ~verifyTypedDataThrows(a.from, dom, a, pl.payload.signature)
        /\ verifyTypedData(a.from, dom, a, pl.payload.signature)
        /\ isAddress(a.to) /\ isAddress(rq.payTo)
        /\ ~RecipientMismatch(pl, rq)

\* Lines 109-165: verifyTypedData completes, then the recipient and the
\* deadlines are checked, up to the await of getERC20Balance.
CheckSignature(p) ==
    LET pl == payload[p]
        rq == paymentRequirements[p]
        a == pl.payload.authorization
    IN  /\ pc[p] = "verifyTypedData"
        /\ Called(p, "verifyTypedData")
        /\ seen' = [seen EXCEPT ![p].clock =
                      IF ReachesDeadlines(pl, rq, domain[p]) THEN now ELSE @]
        /\ IF verifyTypedDataThrows(a.from, domain[p], a, pl.payload.signature)
           THEN Throws(p)
           ELSE IF ~verifyTypedData(a.from, domain[p], a, pl.payload.signature)
           THEN VerifyReturns(p, Reject(pl, "invalid_scheme"))
           ELSE IF ~isAddress(a.to) \/ ~isAddress(rq.payTo)
           THEN Throws(p)
           ELSE IF RecipientMismatch(pl, rq)
           THEN VerifyReturns(p, Reject(pl, "invalid_scheme"))
           ELSE IF Expired(pl, now)
           THEN VerifyReturns(p, Reject(pl, "invalid_scheme"))
           ELSE IF NotYetValid(pl, now)
           THEN VerifyReturns(p, Reject(pl, "invalid_scheme"))
           ELSE /\ pc' = [pc EXCEPT ![p] = "getERC20Balance"]
                /\ UNCHANGED <<valid, settled, outcome>>
        /\ UNCHANGED <<op, payload, paymentRequirements, domain, tx, accepted, now,
                       balance, usedNonces, receipts>>

\* Lines 167-195: getERC20Balance completes (or its RPC fails), then the
\* balance and the amount are checked.
CheckFunds(p) ==
    LET pl == payload[p]
        rq == paymentRequirements[p]
    IN  /\ pc[p] = "getERC20Balance"
        /\ Called(p, "getERC20Balance")
        /\ \E rpcOk \in BOOLEAN :
             /\ seen' = [seen EXCEPT ![p].balance =
                           IF rpcOk
                           THEN getERC20Balance(domain[p].verifyingContract, Payer(pl))
                           ELSE @]
             /\ IF ~rpcOk
                THEN Throws(p)
                ELSE IF InsufficientFunds(getERC20Balance(domain[p].verifyingContract, Payer(pl)), rq)
                THEN VerifyReturns(p, Reject(pl, "insufficient_funds"))
                ELSE IF AmountTooLow(pl, rq)
                THEN VerifyReturns(p, Reject(pl, "invalid_scheme"))
                ELSE VerifyReturns(p, Accept(pl))
        /\ UNCHANGED <<op, payload, paymentRequirements, domain, tx, accepted, now,
                       balance, usedNonces, receipts>>

\* Lines 231-247: writeContract completes with the hash of the transaction it
\* has broadcast, or throws (RPC failure, reverted gas estimation).
Submit(p) ==
    /\ pc[p] = "writeContract"
    /\ Called(p, "writeContract")
    /\ \E ok \in BOOLEAN :
         IF ok
         THEN /\ tx' = [tx EXCEPT ![p] = TxHash(p)]
              /\ receipts' = [receipts EXCEPT ![p] = "pending"]
              /\ pc' = [pc EXCEPT ![p] = "waitForTransactionReceipt"]
              /\ UNCHANGED <<valid, settled, outcome>>
         ELSE /\ Throws(p)
              /\ UNCHANGED <<tx, receipts>>
    /\ UNCHANGED <<op, payload, paymentRequirements, domain, accepted, now, balance,
                   usedNonces, seen>>

\* The chain mines the transaction of invocation p.
Mine(p) ==
    /\ receipts[p] = "pending"
    /\ IF ContractAccepts(payload[p])
       THEN /\ receipts' = [receipts EXCEPT ![p] = "success"]
            /\ balance' = balance - BigInt(payload[p].payload.authorization.value)
            /\ usedNonces' = usedNonces \cup {payload[p].payload.authorization.nonce}
       ELSE /\ receipts' = [receipts EXCEPT ![p] = "reverted"]
            /\ UNCHANGED <<balance, usedNonces>>
    /\ UNCHANGED <<pc, op, payload, paymentRequirements, domain, valid, settled,
                   outcome, tx, calls, accepted, now, seen>>

\* Lines 247-268: waitForTransactionReceipt completes with the receipt of the
\* mined transaction.
Receipt(p) ==
    /\ pc[p] = "waitForTransactionReceipt"
    /\ receipts[p] \in {"success", "reverted"}
    /\ Called(p, "waitForTransactionReceipt")
    /\ pc' = [pc EXCEPT ![p] = AfterReceipt(receipts[p])]
    /\ outcome' = [outcome EXCEPT ![p] = "returned"]
    /\ settled' = [settled EXCEPT ![p] =
                     IF ReceiptNotSuccess(receipts[p])
                     THEN SettleFailed(payload[p], tx[p])
                     ELSE SettleSucceeded(payload[p], tx[p])]
    /\ UNCHANGED <<op, payload, paymentRequirements, domain, valid, tx, accepted,
                   now, balance, usedNonces, receipts, seen>>

\* Line 247: waitForTransactionReceipt throws (its timeout, an RPC failure).
ReceiptFails(p) ==
    /\ pc[p] = "waitForTransactionReceipt"
    /\ Called(p, "waitForTransactionReceipt")
    /\ Throws(p)
    /\ UNCHANGED <<op, payload, paymentRequirements, domain, tx, accepted, now,
                   balance, usedNonces, receipts, seen>>

\* Time passes.
Tick ==
    /\ now < MaxNow
    /\ now' = now + 1
    /\ UNCHANGED <<pc, op, payload, paymentRequirements, domain, valid, settled,
                   outcome, tx, calls, accepted, balance, usedNonces, receipts, seen>>

\* The payer's balance changes by transfers made elsewhere.
Drift ==
    /\ \E b \in Balances \ {balance} : balance' = b
    /\ UNCHANGED <<pc, op, payload, paymentRequirements, domain, valid, settled,
                   outcome, tx, calls, accepted, now, usedNonces, receipts, seen>>

Init ==
    /\ pc = [p \in Procs |-> "idle"]
    /\ op = [p \in Procs |-> "verify"]
    /\ payload = [p \in Procs |-> BasePayload]
    /\ paymentRequirements = [p \in Procs |-> BaseRequirements]
    /\ domain = [p \in Procs |-> NoDomain]
    /\ valid = [p \in Procs |-> Pending]
    /\ settled = [p \in Procs |-> Unsettled]
    /\ outcome = [p \in Procs |-> "pending"]
    /\ tx = [p \in Procs |-> "none"]
    /\ calls = [p \in Procs |-> NoCalls]
    /\ accepted = [p \in Procs |-> FALSE]
    /\ receipts = [p \in Procs |-> "none"]
    /\ seen = [p \in Procs |-> NoReads]
    /\ now = 0
    /\ balance \in Balances
    /\ usedNonces = {}

\* One caller, one invocation at a time.
Step(p) ==
    \/ Call(p)
    \/ Return(p)
    \/ SettleAfterVerify(p)
    \/ Resolve(p)
    \/ CheckSignature(p)
    \/ CheckFunds(p)
    \/ Submit(p)
    \/ Mine(p)
    \/ Receipt(p)
    \/ ReceiptFails(p)

Next == Step(1) \/ Tick \/ Drift

Spec == Init /\ [][Next]_vars

\* Two callers at once: the invocations of the two /verify and /settle
\* handlers interleave at their awaits.  The requests are the reference
\* request, the same on an unknown network, and the same without extra.
ConcurrentRequests ==
    {<<MakePayload(f), MakeRequirements(f)>> :
        f \in {BaseFields, [BaseFields EXCEPT !.network = "unknown"],
               [BaseFields EXCEPT !.extra = NoExtra]}}

CallConcurrent(p) ==
    /\ pc[p] = "idle"
    /\ \E r \in ConcurrentRequests, o \in {"verify", "settle"} :
         Start(p, o, r[1], r[2], FALSE)
    /\ pc' = [pc EXCEPT ![p] = "verify"]

StepConcurrent(p) ==
    \/ CallConcurrent(p)
    \/ Return(p)
    \/ Resolve(p)
    \/ CheckSignature(p)
    \/ CheckFunds(p)
    \/ Submit(p)
    \/ Mine(p)
    \/ Receipt(p)
    \/ ReceiptFails(p)

NextConcurrent == (\E p \in Procs : StepConcurrent(p)) \/ Tick \/ Drift

SpecConcurrent == Init /\ [][NextConcurrent]_vars

\* ------------------------------------------------------------------ claims
\* What the typed-data check of invocation p answers, from its inputs.
SignatureThrows(p) ==
    verifyTypedDataThrows(payload[p].payload.authorization.from, domain[p],
                          payload[p].payload.authorization, payload[p].payload.signature)
SignatureHolds(p) ==
    verifyTypedData(payload[p].payload.authorization.from, domain[p],
                    payload[p].payload.authorization, payload[p].payload.signature)
\* Invocation p has passed the scheme check and the resolution of lines 66-85.
Resolved(p) == domain[p] # NoDomain
\* Invocation p has passed the signature check too.
SignaturePassed(p) == Resolved(p) /\ ~SignatureThrows(p) /\ SignatureHolds(p)
\* ... and the recipient check.
RecipientPassed(p) ==
    /\ SignaturePassed(p)
    /\ isAddress(paymentRequirements[p].payTo)
    /\ ~RecipientMismatch(payload[p], paymentRequirements[p])

\* C1: once the verify re-run by a settle invocation has answered isValid =
\* false, that invocation has made and makes no call of writeContract or
\* waitForTransactionReceipt and has no transaction on chain.
C1_InvalidNeverSubmitted ==
    \A p \in Procs :
        (op[p] = "settle" /\ valid[p] # Pending /\ ~valid[p].isValid)
            => /\ calls[p].writeContract = 0
               /\ calls[p].waitForTransactionReceipt = 0
               /\ tx[p] = "none"
               /\ receipts[p] = "none"
\* A settle rejected by its re-verification although an earlier verify of the
\* same request had accepted it.
C1_Witness ==
    /\ op[1] = "settle" /\ accepted[1]
    /\ outcome[1] = "returned"
    /\ valid[1] # Pending /\ ~valid[1].isValid

\* C2: every VerifyResponse and every SettleResponse carries as payer the
\* authorization's from exactly as the payload supplies it.
C2_PayerAsSupplied ==
    \A p \in Procs :
        /\ valid[p] # Pending => valid[p].payer = payload[p].payload.authorization.from
        /\ settled[p] # Unsettled => settled[p].payer = payload[p].payload.authorization.from
\* A successful settlement whose payer is not in checksummed form.
C2_Witness ==
    /\ outcome[1] = "returned" /\ op[1] = "settle" /\ settled[1].success
    /\ valid[1].isValid
    /\ payload[1].payload.authorization.from = "0xaa"

\* C3: when payload.scheme or requirements.scheme is not the supported scheme,
\* verify answers isValid = false with invalidReason unsupported_scheme,
\* having made no external call.
C3_UnsupportedScheme ==
    \A p \in Procs :
        (pc[p] \notin {"idle", "verify"} /\ SchemeMismatch(payload[p], paymentRequirements[p]))
            => /\ valid[p] # Pending /\ ~valid[p].isValid
               /\ valid[p].invalidReason = "unsupported_scheme"
               /\ calls[p] = NoCalls

\* C4: when scheme and resolution pass and the signature is not one of
\* authorization.from over the reconstructed typed data, verify answers
\* isValid = false with invalidReason invalid_signature.
C4_InvalidSignature ==
    \A p \in Procs :
        (pc[p] \notin {"idle", "verify", "verifyTypedData"}
         /\ Resolved(p) /\ ~SignatureThrows(p) /\ ~SignatureHolds(p))
            => /\ valid[p] # Pending /\ ~valid[p].isValid
               /\ valid[p].invalidReason = "invalid_signature"

\* C5: when the scheme, resolution and signature checks pass, recipients that
\* differ only in letter case are not rejected as mismatching, and any other
\* difference makes verify answer isValid = false with invalidReason
\* recipient_mismatch and payer = authorization.from.
C5_RecipientMismatch ==
    \A p \in Procs :
        (pc[p] \notin {"idle", "verify", "verifyTypedData"}
         /\ SignaturePassed(p) /\ isAddress(paymentRequirements[p].payTo))
            => IF RecipientMismatch(payload[p], paymentRequirements[p])
               THEN valid[p] = [isValid |-> FALSE, invalidReason |-> "recipient_mismatch",
                                payer |-> payload[p].payload.authorization.from]
               ELSE valid[p].invalidReason # "recipient_mismatch"

\* C6: with the earlier checks passing, the step that checks the deadlines
\* rejects with authorization_expired exactly when validBefore < now + 6,
\* otherwise with authorization_not_yet_valid exactly when validAfter > now,
\* and otherwise goes on to the balance read.
C6_Step(p) ==
    (pc[p] = "verifyTypedData" /\ pc'[p] # "verifyTypedData" /\ RecipientPassed(p))
        => IF BigInt(payload[p].payload.authorization.validBefore) < now + 6
           THEN ~valid'[p].isValid /\ valid'[p].invalidReason = "authorization_expired"
           ELSE IF BigInt(payload[p].payload.authorization.validAfter) > now
           THEN ~valid'[p].isValid /\ valid'[p].invalidReason = "authorization_not_yet_valid"
           ELSE pc'[p] = "getERC20Balance"
C6_TemporalReasons == [][\A p \in Procs : C6_Step(p)]_vars

\* C7: with the earlier checks passing, a value below maxAmountRequired (as
\* maxAmountRequired - 1 is) is rejected with invalidReason amount_too_low,
\* and a value equal to maxAmountRequired is accepted.
C7_AmountTooLow ==
    \A p \in Procs :
        (valid[p] # Pending /\ calls[p].getERC20Balance = 1
         /\ valid[p].invalidReason # "insufficient_funds")
            => IF BigInt(payload[p].payload.authorization.value)
                    < BigInt(paymentRequirements[p].maxAmountRequired)
               THEN ~valid[p].isValid /\ valid[p].invalidReason = "amount_too_low"
               ELSE valid[p].isValid

\* C8: when the balance read answers, verify rejects with insufficient_funds
\* exactly when the balance of authorization.from is below maxAmountRequired;
\* a balance equal to maxAmountRequired is not rejected for its funds.
C8_Step(p) ==
    (pc[p] = "getERC20Balance" /\ pc'[p] # "getERC20Balance" /\ outcome'[p] # "threw")
        => IF balance < BigInt(paymentRequirements[p].maxAmountRequired)
           THEN valid'[p] = [isValid |-> FALSE, invalidReason |-> "insufficient_funds",
                             payer |-> payload[p].payload.authorization.from]
           ELSE valid'[p] # Pending /\ valid'[p].invalidReason # "insufficient_funds"
C8_InsufficientFunds == [][\A p \in Procs : C8_Step(p)]_vars
\* verify has rejected a request for the payer's funds, after one balance read.
C8_Witness ==
    /\ op[1] = "verify" /\ outcome[1] = "returned"
    /\ calls[1].getERC20Balance = 1
    /\ valid[1].invalidReason = "insufficient_funds"

\* C9: when the scheme check passes, an unknown network, a chain id the
\* configuration lacks or a malformed asset address makes verify answer
\* isValid = false with invalidReason invalid_network.
C9_InvalidNetwork ==
    \A p \in Procs :
        (pc[p] = "done"
         /\ ~SchemeMismatch(payload[p], paymentRequirements[p])
         /\ \/ ResolutionFails(payload[p], paymentRequirements[p], TRUE)
            \/ ~isAddress(paymentRequirements[p].asset))
            => /\ valid[p] # Pending /\ ~valid[p].isValid
               /\ valid[p].invalidReason = "invalid_network"

\* C10: no invocation of verify or settle ends by throwing; a failing
\* collaborator ends it with a reject response whose reason is unknown_error.
C10_NothingPropagates ==
    \A p \in Procs : outcome[p] # "threw"

\* Invocation p is a settle that has returned a response.
SettleReturned(p) == op[p] = "settle" /\ pc[p] = "done" /\ outcome[p] = "returned"

\* C11: a settle that returns answers success = true exactly when its
\* re-verification was valid and the receipt of its transaction is a success;
\* the response then carries the hash writeContract returned, the payload's
\* network and no errorReason.
C11_SuccessIffReceipt ==
    \A p \in Procs :
        SettleReturned(p)
            => /\ settled[p].success <=> (valid[p].isValid /\ receipts[p] = "success")
               /\ settled[p].success
                    => /\ calls[p].writeContract = 1
                       /\ tx[p] # "none"
                       /\ settled[p].transaction = tx[p]
                       /\ settled[p].network = payload[p].network
                       /\ settled[p].errorReason = "undefined"
\* A settle has returned success after its transaction was mined.
C11_Witness ==
    /\ SettleReturned(1) /\ settled[1].success
    /\ receipts[1] = "success" /\ settled[1].transaction = TxHash(1)

\* C12: when the receipt of the submitted transaction denotes failure, settle
\* answers success = false with errorReason settlement_failed and the hash of
\* the transaction, which is not empty, and the payer.
C12_SettlementFailed ==
    \A p \in Procs :
        (SettleReturned(p) /\ receipts[p] = "reverted")
            => /\ ~settled[p].success
               /\ settled[p].errorReason = "settlement_failed"
               /\ settled[p].transaction = tx[p] /\ tx[p] \notin {"", "none"}
               /\ settled[p].payer = payload[p].payload.authorization.from

\* Invocation p is a settle that has returned because its re-verification
\* was not valid.
SettleRejected(p) == SettleReturned(p) /\ valid[p] # Pending /\ ~valid[p].isValid

\* C13: a settle whose re-verification is invalid answers success = false,
\* an empty transaction and the payer, with an errorReason that tells which
\* validation check failed: two settles rejected for different validator
\* reasons carry different errorReasons.
C13_ReasonRemapped ==
    /\ \A p \in Procs :
         SettleRejected(p)
            => /\ ~settled[p].success
               /\ settled[p].transaction = ""
               /\ settled[p].payer = payload[p].payload.authorization.from
    /\ \A p, q \in Procs :
         (SettleRejected(p) /\ SettleRejected(q)
          /\ valid[p].invalidReason # valid[q].invalidReason)
            => settled[p].errorReason # settled[q].errorReason

\* Invocation p is a settle that is over and had submitted an authorization
\* whose nonce an earlier settlement has consumed.
Resettled(p) ==
    /\ op[p] = "settle" /\ pc[p] = "done"
    /\ calls[p].writeContract = 1
    /\ payload[p].payload.authorization.nonce \in usedNonces
    /\ receipts[p] # "success"

\* C14: a settle of an authorization that has been settled before ends by
\* returning success = false with errorReason settlement_failed: it neither
\* returns success = true nor throws.
C14_ReplayFails ==
    \A p \in Procs :
        Resettled(p)
            => /\ outcome[p] = "returned"
               /\ ~settled[p].success
               /\ settled[p].errorReason = "settlement_failed"

\* C15: every invalidReason verify returns and every errorReason settle
\* returns is one of the eleven codes of the taxonomy.
Taxonomy ==
    {"unsupported_scheme", "invalid_network", "invalid_signature", "recipient_mismatch",
     "authorization_expired", "authorization_not_yet_valid", "insufficient_funds",
     "amount_too_low", "settlement_failed", "timeout", "unknown_error"}
C15_ClosedReasons ==
    \A p \in Procs :
        /\ (valid[p] # Pending /\ ~valid[p].isValid) => valid[p].invalidReason \in Taxonomy
        /\ (SettleReturned(p) /\ ~settled[p].success) => settled[p].errorReason \in Taxonomy

\* C16: a settle whose transaction is not confirmed does not wait for ever and
\* does not throw: once its wait is over it has returned success = false with
\* errorReason timeout.
C16_TimeoutReported ==
    \A p \in Procs :
        (op[p] = "settle" /\ pc[p] = "done" /\ receipts[p] = "pending")
            => /\ outcome[p] = "returned"
               /\ ~settled[p].success
               /\ settled[p].errorReason = "timeout"

C18_Ordered ==
    \A p \in Procs :
        LET pl == payload[p]
            rq == paymentRequirements[p]
            a == pl.payload.authorization
            max == BigInt(rq.maxAmountRequired)
        IN  /\ (pc[p] \notin {"idle", "verify"} /\ (pl.scheme # "exact" \/ rq.scheme # "exact"))
                 => calls[p] = NoCalls /\ valid[p] # Pending /\ ~valid[p].isValid
            /\ calls[p].verifyTypedData >= 1
                 => /\ pl.scheme = "exact" /\ rq.scheme = "exact"
                    /\ pl.network \in {"base-sepolia", "unlisted"}
                    /\ rq.extra.name # "undefined" \/ pl.network = "base-sepolia"
                    /\ rq.extra.version # "undefined" \/ seen[p].version = "2"
            /\ calls[p].getERC20Balance >= 1
                 => /\ calls[p].verifyTypedData = 1
                    /\ pl.payload.signature = "0xsig"
                    /\ a.from \in {"0xAa", "0xaa"}
                    /\ domain[p] = TokenDomain
                    /\ isAddress(a.to) /\ isAddress(rq.payTo)
                    /\ getAddress(a.to) = getAddress(rq.payTo)
                    /\ seen[p].clock >= 0
                    /\ BigInt(a.validBefore) >= seen[p].clock + 6
                    /\ BigInt(a.validAfter) <= seen[p].clock
            /\ (valid[p] # Pending /\ seen[p].balance >= 0 /\ seen[p].balance < max)
                 => valid[p].invalidReason = "insufficient_funds"
            /\ (valid[p] # Pending /\ valid[p].invalidReason = "insufficient_funds")
                 => calls[p].getERC20Balance = 1
            /\ (valid[p] # Pending /\ valid[p].isValid)
                 => /\ calls[p].getERC20Balance = 1
                    /\ seen[p].balance >= max
                    /\ BigInt(a.value) >= max
\* verify has rejected a signature with a flipped byte without a balance read.
C18_Witness ==
    /\ op[1] = "verify" /\ outcome[1] = "returned" /\ ~valid[1].isValid
    /\ payload[1].payload.signature = "0xsjg"
    /\ calls[1].verifyTypedData = 1 /\ calls[1].getERC20Balance = 0

\* C19: one settle invocation calls writeContract at most once and
\* waitForTransactionReceipt at most once, and none of them once it is over.
C19_NoRetry ==
    \A p \in Procs :
        /\ calls[p].writeContract <= 1
        /\ calls[p].waitForTransactionReceipt <= 1
        /\ calls[p].waitForTransactionReceipt <= calls[p].writeContract
        /\ outcome[p] # "pending" => pc[p] = "done"
\* A settle has reported a reverted transaction after one submission and one
\* wait.
C19_Witness ==
    /\ SettleReturned(1) /\ receipts[1] = "reverted" /\ ~settled[1].success
    /\ calls[1].writeContract = 1 /\ calls[1].waitForTransactionReceipt = 1

\* C20: of the settle invocations that carry one signed authorization, run
\* concurrently, at most one returns success = true, and once one has, every
\* other that is over has returned success = false.
C20_AtMostOneSuccess ==
    \A p, q \in Procs :
        (p # q /\ op[p] = "settle" /\ op[q] = "settle"
         /\ pc[p] = "done" /\ pc[q] = "done"
         /\ payload[p].payload = payload[q].payload
         /\ outcome[p] = "returned" /\ settled[p].success)
            => outcome[q] = "returned" /\ ~settled[q].success

====
